---- MODULE Spec2Model ----
(***************************************************************************)
(* Model of the equipment-rental webhook handler (class EquipmentRental    *)
(* and main).  One run handles one triggering record: it reads the record, *)
(* its record type and its workflow step from the remote store and issues  *)
(* PATCH updates.  Three versions of the class are in the source:          *)
(*   "v1"  processRentalAndUpdateParent (parent sync),                     *)
(*   "v2"  processRecordUpdate, back-reference = pkey,                     *)
(*   "v3"  processRecordUpdate, back-reference = record id, /meta fetch.   *)
(*                                                                         *)
(* Three versions of main are in the source as well (variable main).  The  *)
(* specifications: Spec (dispatcher and parent sync), CostSpec (the cost   *)
(* calculator), SelectorSpec (the relevance selector), MainSpec (the       *)
(* process boundary) and RerunSpec (the On Hold run repeated).             *)
(*                                                                         *)
(* Units: instants are counted in half days (MS_PER_DAY == 2 units), so    *)
(* that Math.round sees halves.  Numbers are carried in hundredths (1.00   *)
(* is 100); costs are exact rationals num/den until toFixed(2) rounds.     *)
(***************************************************************************)
EXTENDS Integers, Sequences, FiniteSets, TLC

MaxItems == 2
MaxAssets == 2
MaxCandidates == 2
MaxChildren == 3
MaxRuns == 2

(***************************************************************************)
(* JavaScript values as they arrive in JSON attributes.                    *)
(***************************************************************************)
Undef == [t |-> "undefined"]
Null == [t |-> "null"]
Str(s) == [t |-> "string", s |-> s]
Num(n) == [t |-> "number", n |-> n]
\* a well-formed date-time string denoting the instant at (in half days)
DateStr(at) == [t |-> "datestring", at |-> at]
NaN == [nan |-> TRUE]
Number(h) == [nan |-> FALSE, h |-> h]

Digits == <<"0", "1", "2", "3", "4", "5", "6", "7", "8", "9">>
IsDigit(c) == \E i \in 1..10 : Digits[i] = c
DigitVal(c) == (CHOOSE i \in 1..10 : Digits[i] = c) - 1

RECURSIVE DigitRun(_, _)
\* number of consecutive digits of s starting at position i
DigitRun(s, i) ==
  IF i <= Len(s) /\ IsDigit(s[i]) THEN 1 + DigitRun(s, i + 1) ELSE 0

RECURSIVE DigitsVal(_, _, _)
\* value of the n digits of s starting at position i
DigitsVal(s, i, n) ==
  IF n = 0 THEN 0
  ELSE DigitsVal(s, i, n - 1) * 10 + DigitVal(s[i + n - 1])

\* parseFloat on a string of digits, "-", "." and other characters: the
\* longest prefix that is a decimal literal, NaN when there is none.
\* Fraction digits beyond the second are not in the alphabet's use here.
ParseFloatChars(s) ==
  LET neg == Len(s) >= 1 /\ s[1] = "-"
      p == IF neg THEN 2 ELSE 1
      ni == DigitRun(s, p)
      dot == p + ni <= Len(s) /\ s[p + ni] = "."
      nf == IF dot THEN DigitRun(s, p + ni + 1) ELSE 0
      ip == DigitsVal(s, p, ni)
      fp == IF nf = 0 THEN 0
            ELSE IF nf = 1 THEN 10 * DigitVal(s[p + ni + 1])
            ELSE DigitsVal(s, p + ni + 1, 2)
      mag == ip * 100 + fp
  IN IF ni = 0 /\ nf = 0 THEN NaN
     ELSE Number(IF neg THEN 0 - mag ELSE mag)

\* faulty variant: a strict conversion, text with trailing characters is NaN
ParseFloatBug(v) ==
  CASE v.t = "number" -> Number(v.n * 100)
    [] v.t = "string" -> IF DigitRun(v.s, 1) = Len(v.s) /\ Len(v.s) > 0
                         THEN ParseFloatChars(v.s) ELSE NaN
    [] OTHER -> NaN
\* parseFloat(v): the argument is first converted to a string
ParseFloat(v) ==
  CASE v.t = "number" -> Number(v.n * 100)
    [] v.t = "string" -> ParseFloatChars(v.s)
    [] OTHER -> NaN

\* parseFloat(v) || 0
ParseFloatOr0(v) == LET x == ParseFloat(v) IN IF x.nan THEN 0 ELSE x.h

RECURSIVE NatToChars(_)
NatToChars(n) ==
  IF n < 10 THEN <<Digits[n + 1]>>
  ELSE NatToChars(n \div 10) \o <<Digits[(n % 10) + 1]>>

\* x.toFixed(2) for x = num/den hundredths, den > 0: the nearest hundredth,
\* the larger in magnitude on a tie
ToFixed2(num, den) ==
  LET neg == num < 0
      a == IF neg THEN 0 - num ELSE num
      c == (a \div den) + (IF 2 * (a % den) >= den THEN 1 ELSE 0)
  IN (IF neg THEN <<"-">> ELSE <<>>) \o NatToChars(c \div 100) \o <<".">>
       \o <<Digits[((c \div 10) % 10) + 1], Digits[(c % 10) + 1]>>

\* new Date(v): undefined and unparseable strings give an Invalid Date,
\* null gives the epoch.
NewDate(v) ==
  CASE v.t = "datestring" -> Number(v.at)
    [] v.t = "number" -> Number(v.n)
    [] v.t = "null" -> Number(0)
    [] OTHER -> NaN

MS_PER_DAY == 2
\* Math.round(n / d), d > 0: halves round towards +Infinity
MathRound(n, d) == (2 * n + d) \div (2 * d)


(***************************************************************************)
(* Attribute maps, JSON text and the PATCH body.                           *)
(***************************************************************************)
Arr(a) == [t |-> "array", a |-> a]
\* a string that is the JSON text of the value v
Json(v) == [t |-> "json", v |-> v]
Get(attrs, k) == IF k \in DOMAIN attrs THEN attrs[k] ELSE Undef
\* !v for the values that occur as attributes
Falsy(v) == v = Undef \/ v = Null \/ v = Str(<<>>)

\* JSON.parse(text): throws on anything that is not JSON text
JSONParse(text) ==
  IF text.t = "json" THEN [ok |-> TRUE, v |-> text.v] ELSE [ok |-> FALSE]

\* faulty variant: undefined written as null, as it is inside arrays
StringifyUndefinedAsNull(attrs) ==
  [k \in DOMAIN attrs |-> IF attrs[k] = Undef THEN Null ELSE attrs[k]]
\* JSON.stringify drops the keys whose value is undefined and keeps null
Stringify(attrs) ==
  [k \in {x \in DOMAIN attrs : attrs[x] # Undef} |-> attrs[k]]

\* the remote store applies a PATCH body to the attributes it holds
ApplyPatch(attrs, patch) ==
  [k \in DOMAIN attrs \cup DOMAIN patch |->
     IF k \in DOMAIN patch THEN patch[k] ELSE attrs[k]]

\* s.includes(sub)
Includes(s, sub) ==
  \E i \in 1..(Len(s) - Len(sub) + 1) : SubSeq(s, i, i + Len(sub) - 1) = sub

RENT == <<"R", "E", "N", "T">>

(***************************************************************************)
(* Cost calculation (_handleOnHold loop body, _handleShipmentPreparation   *)
(* reduce).  A line item is modelled by its `values` object.               *)
(***************************************************************************)
DurationDays(startDate, endDate) ==
  MathRound(endDate.h - startDate.h, MS_PER_DAY) + 1

\* faulty variant: the weekly tier tried before the monthly one
TotalCostWeeklyFirst(durationDays, quantity, dailyRate, weeklyRate, monthlyRate) ==
  IF weeklyRate > 0 /\ durationDays >= 7
    THEN [tier |-> "weekly", num |-> durationDays * weeklyRate * quantity, den |-> 7 * 100]
  ELSE IF monthlyRate > 0 /\ durationDays >= 28
    THEN [tier |-> "monthly", num |-> durationDays * monthlyRate * quantity, den |-> 30 * 100]
  ELSE IF dailyRate > 0
    THEN [tier |-> "daily", num |-> durationDays * dailyRate * quantity, den |-> 100]
  ELSE [tier |-> "none", num |-> 0, den |-> 1]
\* the rate tier and the cost as the rational num/den hundredths
TotalCost(durationDays, quantity, dailyRate, weeklyRate, monthlyRate) ==
  IF monthlyRate > 0 /\ durationDays >= 28
    THEN [tier |-> "monthly", num |-> durationDays * monthlyRate * quantity, den |-> 30 * 100]
  ELSE IF weeklyRate > 0 /\ durationDays >= 7
    THEN [tier |-> "weekly", num |-> durationDays * weeklyRate * quantity, den |-> 7 * 100]
  ELSE IF dailyRate > 0
    THEN [tier |-> "daily", num |-> durationDays * dailyRate * quantity, den |-> 100]
  ELSE [tier |-> "none", num |-> 0, den |-> 1]

\* faulty variant: the computed cost added to the stored one
OnHoldItemAccumulates(values) ==
  LET startDate == NewDate(values.cf_rental_period_start)
      endDate == NewDate(values.cf_rental_period_end)
  IN IF startDate.nan \/ endDate.nan \/ DurationDays(startDate, endDate) <= 0
       THEN values
     ELSE LET c == TotalCost(DurationDays(startDate, endDate),
                     ParseFloatOr0(values.cf_quantity_rental),
                     ParseFloatOr0(values.cf_daily_rental_price),
                     ParseFloatOr0(values.cf_weekly_rental_price),
                     ParseFloatOr0(values.cf_monthly_rental_price))
              stored == ParseFloatOr0(values.cf_total_cost)
          IN [values EXCEPT !.cf_total_cost =
                Str(ToFixed2(c.num + stored * c.den, c.den))]
\* faulty variant: a skipped item gets cost "0.00" instead of being left alone
OnHoldItemResetSkipped(values) ==
  LET startDate == NewDate(values.cf_rental_period_start)
      endDate == NewDate(values.cf_rental_period_end)
  IN IF startDate.nan \/ endDate.nan \/ DurationDays(startDate, endDate) <= 0
       THEN [values EXCEPT !.cf_total_cost = Str(ToFixed2(0, 1))]
     ELSE LET c == TotalCost(DurationDays(startDate, endDate),
                     ParseFloatOr0(values.cf_quantity_rental),
                     ParseFloatOr0(values.cf_daily_rental_price),
                     ParseFloatOr0(values.cf_weekly_rental_price),
                     ParseFloatOr0(values.cf_monthly_rental_price))
          IN [values EXCEPT !.cf_total_cost = Str(ToFixed2(c.num, c.den))]
\* one pass of the for loop over one item
OnHoldItem(values) ==
  LET startDate == NewDate(values.cf_rental_period_start)
      endDate == NewDate(values.cf_rental_period_end)
  IN IF startDate.nan \/ endDate.nan THEN values
     ELSE LET durationDays == DurationDays(startDate, endDate)
          IN IF durationDays <= 0 THEN values
             ELSE LET c == TotalCost(durationDays,
                             ParseFloatOr0(values.cf_quantity_rental),
                             ParseFloatOr0(values.cf_daily_rental_price),
                             ParseFloatOr0(values.cf_weekly_rental_price),
                             ParseFloatOr0(values.cf_monthly_rental_price))
                  IN [values EXCEPT !.cf_total_cost = Str(ToFixed2(c.num, c.den))]

\* the whole for loop: every item in place, in order
OnHoldList(equipmentList) ==
  [i \in 1..Len(equipmentList) |-> OnHoldItem(equipmentList[i])]

RECURSIVE SumCosts(_)
\* equipmentList.reduce((sum, item) => sum + (parseFloat(cost) || 0), 0)
SumCosts(equipmentList) ==
  IF equipmentList = <<>> THEN 0
  ELSE SumCosts(SubSeq(equipmentList, 1, Len(equipmentList) - 1))
       + ParseFloatOr0(equipmentList[Len(equipmentList)].cf_total_cost)

\* faulty variant: the total of the costs recomputed from dates and rates
OverallTotalCostRecomputed(equipmentList) ==
  Str(ToFixed2(SumCosts(OnHoldList(equipmentList)), 1))
\* overallTotalCost.toFixed(2)
OverallTotalCost(equipmentList) == Str(ToFixed2(SumCosts(equipmentList), 1))


(***************************************************************************)
(* The remote store and the run.                                           *)
(***************************************************************************)
VARIABLES
  version,        \* which version of the class this build runs
  main,           \* which version of main this build runs
  store,          \* remote store: entity id -> attributes
  rel,            \* relationships of the triggering record: type, status, parent
  children,       \* records whose parent is the triggering record's parent (v1)
  now,            \* new Date() in findRelevantRentalRecord (v1)
  pc,             \* the remote call the run is waiting to make
  recordData,     \* the triggering record as fetched
  pending,        \* the target and payload of the writes still to be issued
  idx,            \* position of the for loop over assetIds
  reads,          \* every read issued, in order: [call, resp]
  updates,        \* every PATCH issued, in order: [id, attributes, ok]
  exitCode,       \* process exit status, -1 while running
  error,          \* the error that ended the run, or NoError
  stderr          \* what main's catch wrote with console.error

vars == <<version, main, store, rel, children, now, pc, recordData, pending,
          idx, reads, updates, exitCode, error, stderr>>

RecordId == "r1"
ParentId == "p1"
AssetIds == {"a1", "a2"}
None == "none"
NoError == [kind |-> "none"]
NoPending == [id |-> None, attributes |-> <<>>]
ErrorBodies == {"body1", "body2"}

\* the record-types table of the store: type id -> display name
TypeIds == {None, "t_asset", "t_component", "t_rental", "t_other", "t_gone"}
RecordTypeNameOf(typeId) ==
  CASE typeId = "t_asset" -> "Asset Record"
    [] typeId = "t_component" -> "Component Record"
    [] typeId = "t_rental" -> "Equipment Rental"
    [] typeId = "t_other" -> "Work Order"
    [] OTHER -> None
\* the workflow-steps table of the store: step id -> text
StatusIds == {None, "s_hold", "s_ship", "s_other"}
WorkflowStepTextOf(statusId) ==
  CASE statusId = "s_hold" -> "Equipment On Hold"
    [] statusId = "s_ship" -> "Shipment Preparation"
    [] OTHER -> "Returned"

\* the ten rental/address fields of the asset payloads
BundleKeys ==
  {"cf_rental_period_start", "cf_rental_period_end", "cf_client_name",
   "cf_equipment_rental_record", "cf_address_line1", "cf_address_line2",
   "cf_address_city", "cf_address_state", "cf_address_zip",
   "cf_address_country"}
Old == Str(<<"old">>)

\* the three versions of main: app.js 1-29, app.js 31-57, Dockerfile 996-1024
Mains == {"app1", "app2", "docker"}
GenericMessage == <<"The script encountered an unrecoverable error.">>
\* error.message of the errors the class throws
ErrorMessage(e) == <<e.kind, e.body>>
\* the console.error of main's catch block
MainCatch(m, e) ==
  IF m = "app1" THEN <<"Error during script execution:">> \o ErrorMessage(e)
  ELSE GenericMessage

\* return from the handler to main: main falls off its end, exit status 0
Return ==
  /\ pc' = "done"
  /\ exitCode' = 0
  /\ error' = NoError
  /\ stderr' = <<>>

\* faulty variant: a catch that logs and does not rethrow
ThrowSwallowed(e) ==
  /\ pc' = "done"
  /\ exitCode' = 0
  /\ error' = NoError
  /\ stderr' = <<>>
\* throw: the handler's catch logs and rethrows, main's catch exits 1
Throw(e) ==
  /\ pc' = "done"
  /\ exitCode' = 1
  /\ error' = e
  /\ stderr' = MainCatch(main, e)

UpdateFailed(body) == [kind |-> "Update failed", body |-> body]
TypeError == [kind |-> "TypeError", body |-> "none"]
SyntaxError == [kind |-> "SyntaxError", body |-> "none"]

\* _updateRecord(recordId, attributesToUpdate) with the response ok:
\* the PATCH is logged as issued and the store applies it
UpdateRecordOk(recordId, attributesToUpdate) ==
  /\ updates' = Append(updates, [id |-> recordId,
                  attributes |-> Stringify(attributesToUpdate), ok |-> TRUE])
  /\ store' = [store EXCEPT ![recordId] =
                  ApplyPatch(@, Stringify(attributesToUpdate))]

\* faulty variant: a non-ok response that is logged and not thrown
UpdateRecordFailedSilently(recordId, attributesToUpdate, body) ==
  /\ updates' = Append(updates, [id |-> recordId,
                  attributes |-> Stringify(attributesToUpdate), ok |-> FALSE])
  /\ store' = store
  /\ Return
\* _updateRecord with a non-ok response: issued, not applied, throws
UpdateRecordFailed(recordId, attributesToUpdate, body) ==
  /\ updates' = Append(updates, [id |-> recordId,
                  attributes |-> Stringify(attributesToUpdate), ok |-> FALSE])
  /\ store' = store
  /\ Throw(UpdateFailed(body))


(***************************************************************************)
(* processRecordUpdate (v2, v3) and its handlers.                          *)
(***************************************************************************)
\* faulty variant: the back-reference left out of the clearing
ClearPayloadKeepsBackReference ==
  [k \in BundleKeys \ {"cf_equipment_rental_record"} |-> Null]
\* clearPayload of _handleAssetComponentUpdate
ClearPayload == [k \in BundleKeys |-> Null]

\* faulty variant: cf_client_name read from the rental's cf_client_name
UpdatePayloadNoClient(rd, v) ==
  LET a == rd.attributes
  IN [k \in BundleKeys |->
        CASE k = "cf_client_name" -> Get(a, "cf_client_name")
          [] k = "cf_equipment_rental_record" ->
               IF v = "v2" THEN Get(a, "pkey") ELSE Str(<<rd.id>>)
          [] OTHER -> Get(a, k)]
\* updatePayload of _handleShipmentPreparation (back-reference: pkey in v2,
\* the record id in v3)
UpdatePayload(rd, v) ==
  LET a == rd.attributes
  IN [k \in BundleKeys |->
        CASE k = "cf_client_name" -> Get(a, "cf_client_project_name")
          [] k = "cf_equipment_rental_record" ->
               IF v = "v2" THEN Get(a, "pkey") ELSE Str(<<rd.id>>)
          [] OTHER -> Get(a, k)]

\* _getRecordData, then the type-id check of processRecordUpdate
GetRecordData ==
  /\ pc = "getRecordData"
  /\ \E resp \in {"ok", "notok", "badjson"} :
       /\ reads' = Append(reads, [call |-> "getRecordData", resp |-> resp])
       /\ CASE resp = "notok" ->
              /\ Return
              /\ UNCHANGED recordData
         [] resp = "badjson" ->
              \* v3 parses the body under try/catch; v2 awaits response.json()
              /\ IF version = "v3" THEN Return ELSE Throw(SyntaxError)
              /\ UNCHANGED recordData
         [] OTHER ->
              /\ recordData' = [id |-> RecordId, attributes |-> store[RecordId],
                                relationships |-> rel]
              /\ IF rel.type = None
                   THEN Return
                   ELSE pc' = "getRecordTypeName" /\ UNCHANGED <<exitCode, error, stderr>>
  /\ UNCHANGED <<version, main, store, rel, children, now, pending, idx, updates>>

\* !pkey || !statusId
MissingPkeyOrStatus(rd) ==
  Falsy(Get(rd.attributes, "pkey")) \/ rd.relationships.status = None

\* _getRecordTypeName, then the branch on the type name up to the next call
GetRecordTypeName ==
  /\ pc = "getRecordTypeName"
  /\ \E ok \in BOOLEAN :
       LET recordTypeName ==
             IF ok THEN RecordTypeNameOf(recordData.relationships.type) ELSE None
       IN /\ reads' = Append(reads, [call |-> "getRecordTypeName",
                                      resp |-> IF ok THEN "ok" ELSE "notok"])
          /\ IF recordTypeName = None THEN Return
             ELSE IF recordTypeName \in {"Asset Record", "Component Record"}
               THEN pc' = "clear" /\ UNCHANGED <<exitCode, error, stderr>>
             ELSE IF recordTypeName = "Equipment Rental"
               THEN IF MissingPkeyOrStatus(recordData)
                      THEN Return
                      ELSE pc' = "getWorkflowStep" /\ UNCHANGED <<exitCode, error, stderr>>
             ELSE Return
  /\ UNCHANGED <<version, main, store, rel, children, now, recordData, pending, idx,
                 updates>>

\* the pkey guard: pkey.includes("RENT")
PkeyIsRental(rd) == Includes(Get(rd.attributes, "pkey").s, RENT)

\* faulty variant: no pkey guard before the switch
DispatchIgnoresPkey(rd, workflowStepText) ==
  CASE workflowStepText = "Equipment On Hold" -> "onHold"
    [] workflowStepText = "Shipment Preparation" -> "shipment"
    [] OTHER -> None
\* faulty variant: the default case runs the On Hold handler
DispatchDefaultOnHold(rd, workflowStepText) ==
  IF ~PkeyIsRental(rd) THEN None
  ELSE CASE workflowStepText = "Shipment Preparation" -> "shipment"
         [] OTHER -> "onHold"
\* the pkey guard, then the switch on workflowStepText: the handler to
\* run, or None
Dispatch(rd, workflowStepText) ==
  IF ~PkeyIsRental(rd) THEN None
  ELSE CASE workflowStepText = "Equipment On Hold" -> "onHold"
         [] workflowStepText = "Shipment Preparation" -> "shipment"
         [] OTHER -> None

\* _getWorkflowStep, then the pkey guard and the switch
GetWorkflowStep ==
  /\ pc = "getWorkflowStep"
  /\ \E ok \in BOOLEAN :
       LET workflowStepText ==
             IF ok THEN WorkflowStepTextOf(recordData.relationships.status)
             ELSE "undefined"
           handler == Dispatch(recordData, workflowStepText)
       IN /\ reads' = Append(reads, [call |-> "getWorkflowStep",
                                      resp |-> IF ok THEN "ok" ELSE "notok"])
          /\ IF handler = None THEN Return
             ELSE pc' = handler /\ UNCHANGED <<exitCode, error, stderr>>
  /\ UNCHANGED <<version, main, store, rel, children, now, recordData, pending, idx,
                 updates>>

\* faulty variant: JSON.parse(equipmentListJson || "[]")
EquipmentListOfDefaultEmpty(rd) ==
  LET equipmentListJson == Get(rd.attributes, "cf_list_equipment_to_be")
      parsed == JSONParse(equipmentListJson)
  IN IF Falsy(equipmentListJson) THEN [k |-> "list", list |-> <<>>]
     ELSE IF ~parsed.ok THEN [k |-> "return"]
     ELSE IF parsed.v.t # "array" THEN [k |-> "throw"]
     ELSE [k |-> "list", list |-> parsed.v.a]
\* faulty variant: JSON.parse outside the try block
EquipmentListOfNoCatch(rd) ==
  LET equipmentListJson == Get(rd.attributes, "cf_list_equipment_to_be")
      parsed == JSONParse(equipmentListJson)
  IN IF Falsy(equipmentListJson) THEN [k |-> "return"]
     ELSE IF ~parsed.ok THEN [k |-> "throw"]
     ELSE IF parsed.v.t # "array" THEN [k |-> "throw"]
     ELSE [k |-> "list", list |-> parsed.v.a]
\* what the handlers do with cf_list_equipment_to_be before any write:
\* "return" (absent or unparseable), "throw" (parsed, not a list), "list"
EquipmentListOf(rd) ==
  LET equipmentListJson == Get(rd.attributes, "cf_list_equipment_to_be")
      parsed == JSONParse(equipmentListJson)
  IN IF Falsy(equipmentListJson) THEN [k |-> "return"]
     ELSE IF ~parsed.ok THEN [k |-> "return"]
     ELSE IF parsed.v.t # "array" THEN [k |-> "throw"]
     ELSE [k |-> "list", list |-> parsed.v.a]

\* _handleOnHold
HandleOnHold ==
  /\ pc = "onHold"
  /\ LET el == EquipmentListOf(recordData)
     IN CASE el.k = "return" -> Return /\ UNCHANGED <<store, updates>>
          [] el.k = "throw" -> Throw(TypeError) /\ UNCHANGED <<store, updates>>
          [] OTHER ->
               LET patch == [cf_list_equipment_to_be |->
                               Json(Arr(OnHoldList(el.list)))]
               IN \/ UpdateRecordOk(recordData.id, patch) /\ Return
                  \/ \E b \in ErrorBodies :
                       UpdateRecordFailed(recordData.id, patch, b)
  /\ UNCHANGED <<version, main, rel, children, now, recordData, pending, idx, reads>>

\* the asset ids the propagation loop will visit: none unless a non-empty array
AssetIdsOf(rd) ==
  LET assetIds == Get(rd.attributes, "cf_available_equipment")
  IN IF assetIds.t = "array" THEN assetIds.a ELSE <<>>

\* _handleShipmentPreparation up to and including the aggregate write
HandleShipmentPreparation ==
  /\ pc = "shipment"
  /\ LET el == EquipmentListOf(recordData)
     IN CASE el.k = "return" -> Return /\ UNCHANGED <<store, updates, idx>>
          [] el.k = "throw" -> Throw(TypeError) /\ UNCHANGED <<store, updates, idx>>
          [] OTHER ->
               LET patch == [cf_total_equipment_rental_cost |->
                               OverallTotalCost(el.list)]
               IN \/ /\ UpdateRecordOk(recordData.id, patch)
                     /\ IF AssetIdsOf(recordData) = <<>>
                          THEN Return /\ UNCHANGED idx
                          ELSE /\ pc' = "assets"
                               /\ idx' = 1
                               /\ UNCHANGED <<exitCode, error, stderr>>
                  \/ /\ \E b \in ErrorBodies :
                          UpdateRecordFailed(recordData.id, patch, b)
                     /\ UNCHANGED idx
  /\ UNCHANGED <<version, main, rel, children, now, recordData, pending, reads>>

\* one pass of `for (const assetId of assetIds) await _updateRecord(...)`
UpdateAsset ==
  /\ pc = "assets"
  /\ LET assetIds == AssetIdsOf(recordData)
         payload == UpdatePayload(recordData, version)
     IN \/ /\ UpdateRecordOk(assetIds[idx], payload)
           /\ IF idx = Len(assetIds)
                THEN Return /\ UNCHANGED idx
                ELSE idx' = idx + 1 /\ UNCHANGED <<pc, exitCode, error, stderr>>
        \/ /\ \E b \in ErrorBodies :
                UpdateRecordFailed(assetIds[idx], payload, b)
           /\ UNCHANGED idx
  /\ UNCHANGED <<version, main, rel, children, now, recordData, pending, reads>>

\* _handleAssetComponentUpdate
HandleAssetComponentUpdate ==
  /\ pc = "clear"
  /\ \/ UpdateRecordOk(RecordId, ClearPayload) /\ Return
     \/ \E b \in ErrorBodies : UpdateRecordFailed(RecordId, ClearPayload, b)
  /\ UNCHANGED <<version, main, rel, children, now, recordData, pending, idx, reads>>


(***************************************************************************)
(* processRentalAndUpdateParent (v1) and the relevance selector.           *)
(***************************************************************************)
\* faulty variant: new Date(attribute) without the guard, null is the epoch
CandidateDateNoGuard(v) == NewDate(v)
\* attribute ? new Date(attribute) : null, null shown as an Invalid Date
CandidateDate(v) == IF Falsy(v) THEN NaN ELSE NewDate(v)

\* the .map().filter() of findRelevantRentalRecord: positions of the
\* records with both dates present and valid
PotentialRecords(recordsData) ==
  {i \in 1..Len(recordsData) :
     /\ ~CandidateDate(Get(recordsData[i].attributes, "cf_rental_period_start")).nan
     /\ ~CandidateDate(Get(recordsData[i].attributes, "cf_rental_period_end")).nan}

StartOf(recordsData, i) ==
  CandidateDate(Get(recordsData[i].attributes, "cf_rental_period_start")).h
EndOf(recordsData, i) ==
  CandidateDate(Get(recordsData[i].attributes, "cf_rental_period_end")).h

ActiveRecords(recordsData, t) ==
  {i \in PotentialRecords(recordsData) :
     StartOf(recordsData, i) <= t /\ EndOf(recordsData, i) >= t}
FutureRecords(recordsData, t) ==
  {i \in PotentialRecords(recordsData) :
     StartOf(recordsData, i) > t /\ EndOf(recordsData, i) >= t}

\* faulty variant: the comparator's operands swapped, earliest start first
FirstActiveAscending(recordsData, active) ==
  LET Before(a, b) ==
        \/ StartOf(recordsData, a) < StartOf(recordsData, b)
        \/ /\ StartOf(recordsData, a) = StartOf(recordsData, b)
           /\ EndOf(recordsData, a) < EndOf(recordsData, b)
      firsts == {i \in active : \A j \in active : ~Before(j, i)}
  IN CHOOSE i \in firsts : \A j \in firsts : i <= j
\* activeRecords.sort(...)[0]: latest start, then latest end; the sort is
\* stable, so among equals the earliest of the input
FirstActive(recordsData, active) ==
  LET Before(a, b) ==
        \/ StartOf(recordsData, a) > StartOf(recordsData, b)
        \/ /\ StartOf(recordsData, a) = StartOf(recordsData, b)
           /\ EndOf(recordsData, a) > EndOf(recordsData, b)
      firsts == {i \in active : \A j \in active : ~Before(j, i)}
  IN CHOOSE i \in firsts : \A j \in firsts : i <= j

\* faulty variant: futureRecords[0] without the sort
FirstFutureUnsorted(recordsData, future) ==
  CHOOSE i \in future : \A j \in future : i <= j
\* futureRecords.sort(...)[0]: earliest start, the earliest of the input
\* among equals
FirstFuture(recordsData, future) ==
  LET firsts == {i \in future : \A j \in future :
                   StartOf(recordsData, j) >= StartOf(recordsData, i)}
  IN CHOOSE i \in firsts : \A j \in firsts : i <= j

\* faulty variant: a record of the past is chosen when nothing else is left
FindRelevantRentalRecordFallback(recordsData, t) ==
  LET active == ActiveRecords(recordsData, t)
      future == FutureRecords(recordsData, t)
      potential == PotentialRecords(recordsData)
  IN IF active # {} THEN FirstActive(recordsData, active)
     ELSE IF future # {} THEN FirstFuture(recordsData, future)
     ELSE IF potential # {} THEN CHOOSE i \in potential : \A j \in potential : i <= j
     ELSE 0
\* findRelevantRentalRecord(recordsData) at new Date() = t: the position of
\* the chosen record, 0 for null
FindRelevantRentalRecord(recordsData, t) ==
  LET active == ActiveRecords(recordsData, t)
      future == FutureRecords(recordsData, t)
  IN IF active # {} THEN FirstActive(recordsData, active)
     ELSE IF future # {} THEN FirstFuture(recordsData, future)
     ELSE 0

\* the nine fields copied from the chosen child to the parent
ParentKeys == BundleKeys \ {"cf_equipment_rental_record"}
AttributesForParent(relevantRentalAttributes) ==
  [k \in ParentKeys |-> Get(relevantRentalAttributes, k)]

\* GET /records/{id}/meta, then the parent-id check
FetchMeta ==
  /\ pc = "fetchMeta"
  /\ \/ /\ \E b \in ErrorBodies :
             Throw([kind |-> "Metadata fetch failed", body |-> b])
        /\ reads' = Append(reads, [call |-> "fetchMeta", resp |-> "notok"])
     \/ /\ IF rel.parent = None
             THEN Return
             ELSE pc' = "search" /\ UNCHANGED <<exitCode, error, stderr>>
        /\ reads' = Append(reads, [call |-> "fetchMeta", resp |-> "ok"])
  /\ UNCHANGED <<version, main, store, rel, children, now, recordData, pending, idx,
                 updates>>

\* searchRentalRecords, then the selection and the filtered payload
SearchRentalRecords ==
  /\ pc = "search"
  /\ \/ /\ \E b \in ErrorBodies : Throw([kind |-> "Search failed", body |-> b])
        /\ reads' = Append(reads, [call |-> "searchRentalRecords", resp |-> "notok"])
        /\ UNCHANGED pending
     \/ LET chosen == FindRelevantRentalRecord(children, now)
            filtered == IF chosen = 0 THEN <<>>
                        ELSE Stringify(AttributesForParent(children[chosen].attributes))
        IN /\ reads' = Append(reads, [call |-> "searchRentalRecords", resp |-> "ok"])
           /\ IF children = <<>> \/ chosen = 0 \/ DOMAIN filtered = {}
                THEN Return /\ UNCHANGED pending
                ELSE /\ pc' = "updateParent"
                     /\ pending' = [id |-> rel.parent, attributes |-> filtered]
                     /\ UNCHANGED <<exitCode, error, stderr>>
  /\ UNCHANGED <<version, main, store, rel, children, now, recordData, idx, updates>>

\* updateParentRecord
UpdateParentRecord ==
  /\ pc = "updateParent"
  /\ \/ UpdateRecordOk(pending.id, pending.attributes) /\ Return
     \/ \E b \in ErrorBodies :
          UpdateRecordFailed(pending.id, pending.attributes, b)
  /\ UNCHANGED <<version, main, rel, children, now, recordData, pending, idx, reads>>


(***************************************************************************)
(* Initial states: the contents of the remote store when the run starts.   *)
(***************************************************************************)
SeqsUpTo(S, n) == UNION {[1..k -> S] : k \in 0..n}

Item(s, e, q, d, w, m, c) ==
  [cf_rental_period_start |-> s, cf_rental_period_end |-> e,
   cf_quantity_rental |-> q, cf_daily_rental_price |-> d,
   cf_weekly_rental_price |-> w, cf_monthly_rental_price |-> m,
   cf_total_cost |-> c]

\* start/end pairs: durations 1, 6, 7 (5.5 days apart), 7, 27, 28, a
\* half day backwards (1), a day backwards (0), missing, unparseable,
\* null (the epoch)
DatePairs ==
  {<<DateStr(4), DateStr(4)>>, <<DateStr(0), DateStr(10)>>,
   <<DateStr(0), DateStr(11)>>, <<DateStr(0), DateStr(12)>>,
   <<DateStr(0), DateStr(52)>>, <<DateStr(0), DateStr(54)>>,
   <<DateStr(4), DateStr(3)>>, <<DateStr(4), DateStr(2)>>,
   <<Undef, DateStr(4)>>, <<DateStr(0), Str(<<"s", "o", "o", "n">>)>>,
   <<Null, DateStr(12)>>}
Quantities == {Num(1), Str(<<"2">>), Undef}
DailyRates == {Num(50), Str(<<"5", "x">>), Str(<<"x">>), Undef}
WeeklyRates == {Num(300), Str(<<"0">>), Undef}
MonthlyRates == {Num(900), Str(<<"n", "/", "a">>), Undef}
StoredCosts ==
  {Undef, Str(<<"1", "0", ".", "0", "0">>), Str(<<"5", ".", "5", "0">>),
   Str(<<"x">>)}

\* single items over every combination of the fields
RichItems ==
  {Item(p[1], p[2], q, d, w, m, c) :
     p \in DatePairs, q \in Quantities, d \in DailyRates, w \in WeeklyRates,
     m \in MonthlyRates, c \in {Undef, Str(<<"9", ".", "9", "9">>)}}

\* items for lists: computed, skipped for its dates, skipped for its
\* duration, each with every stored cost
LeanItems ==
  {Item(p[1], p[2], Num(1), Num(50), Num(300), Undef, c) :
     p \in {<<DateStr(0), DateStr(12)>>, <<Undef, DateStr(4)>>,
            <<DateStr(4), DateStr(2)>>},
     c \in StoredCosts}

CostLists ==
  {<<i>> : i \in RichItems} \cup SeqsUpTo(LeanItems, MaxItems)

ItemA ==
  Item(DateStr(0), DateStr(12), Num(1), Num(50), Num(300), Undef,
       Str(<<"3", "0", "0", ".", "0", "0">>))
ItemB ==
  Item(DateStr(0), DateStr(4), Num(1), Num(15), Undef, Undef, Undef)

\* cf_list_equipment_to_be: absent, null, empty text, not JSON, JSON null,
\* and lists
DispatchLists ==
  {Undef, Null, Str(<<>>), Str(<<"[", "{">>), Json(Null), Json(Arr(<<>>)), Json(Arr(<<ItemA>>)),
   Json(Arr(<<ItemA, ItemB>>))}

\* cf_available_equipment: absent, or an array of asset ids
AssetLists == {Undef} \cup {Arr(a) : a \in SeqsUpTo(AssetIds, MaxAssets)}

PKeys ==
  {Str(<<>>), Str(<<"R", "E", "N", "-", "T">>),
   Str(<<"R", "E", "N", "T", "-", "0", "0", "1">>),
   Str(<<"X", "R", "E", "N", "T">>)}

\* the rental's own period/client/address attributes
SourceKeys ==
  (BundleKeys \ {"cf_client_name", "cf_equipment_rental_record"})
    \cup {"cf_client_project_name"}
FullBundle ==
  [k \in SourceKeys |->
     CASE k = "cf_rental_period_start" -> DateStr(0)
       [] k = "cf_rental_period_end" -> DateStr(12)
       [] OTHER -> Str(<<k>>)]
SparseBundle ==
  [FullBundle EXCEPT !["cf_address_line2"] = Undef,
                     !["cf_address_zip"] = Null,
                     !["cf_rental_period_end"] = Undef]
Bundles == {FullBundle, SparseBundle}

RentalAttributes(pkey, list, assets, bundle) ==
  [k \in SourceKeys \cup {"pkey", "cf_list_equipment_to_be",
                          "cf_available_equipment",
                          "cf_total_equipment_rental_cost"} |->
     CASE k = "pkey" -> pkey
       [] k = "cf_list_equipment_to_be" -> list
       [] k = "cf_available_equipment" -> assets
       [] k = "cf_total_equipment_rental_cost" -> Undef
       [] OTHER -> bundle[k]]

OldAttributes == [k \in BundleKeys |-> Old]

InitialStore(attributes) ==
  [id \in {RecordId, ParentId} \cup AssetIds |->
     IF id = RecordId THEN attributes ELSE OldAttributes]

\* what does not depend on the store
InitRun ==
  /\ recordData = Null
  /\ pending = NoPending
  /\ idx = 0
  /\ reads = <<>>
  /\ updates = <<>>
  /\ exitCode = -1
  /\ error = NoError
  /\ stderr = <<>>

InitDispatch ==
  /\ version \in {"v2", "v3"}
  /\ main = "docker"
  /\ pc = "getRecordData"
  /\ rel \in [type : TypeIds, status : StatusIds, parent : {None}]
  /\ \E pkey \in PKeys, list \in DispatchLists, assets \in AssetLists,
        bundle \in Bundles :
       store = InitialStore(RentalAttributes(pkey, list, assets, bundle))
  /\ children = <<>>
  /\ now = 0
  /\ InitRun

\* child records of the parent: both dates from missing, unparseable,
\* past, present and future instants
CandidateStarts == {Undef, DateStr(-2), DateStr(2)}
CandidateEnds == {Str(<<"t", "b", "d">>), DateStr(-1), DateStr(4)}
CandidateAttributes ==
  {[cf_rental_period_start |-> s, cf_rental_period_end |-> e,
    cf_client_name |-> c] :
     s \in CandidateStarts, e \in CandidateEnds, c \in {Null, Str(<<"acme">>)}}
Nows == {0, 3}

InitParentSync ==
  /\ version = "v1"
  /\ main = "docker"
  /\ pc = "fetchMeta"
  /\ rel \in [type : {None}, status : {None}, parent : {None, ParentId}]
  /\ store = InitialStore(OldAttributes)
  /\ \E cs \in SeqsUpTo(CandidateAttributes, MaxCandidates) :
       children = [i \in 1..Len(cs) |-> [id |-> i, attributes |-> cs[i]]]
  /\ now \in Nows
  /\ InitRun

Init == InitDispatch \/ InitParentSync

Next ==
  \/ GetRecordData
  \/ GetRecordTypeName
  \/ GetWorkflowStep
  \/ HandleOnHold
  \/ HandleShipmentPreparation
  \/ UpdateAsset
  \/ HandleAssetComponentUpdate
  \/ FetchMeta
  \/ SearchRentalRecords
  \/ UpdateParentRecord

Spec == Init /\ [][Next]_vars

(***************************************************************************)
(* The parent sync on its own: a triggering record with a parent whose     *)
(* children cover past, active, future, inverted and invalid date ranges.  *)
(***************************************************************************)
Child(s, e, c) ==
  [cf_rental_period_start |-> s, cf_rental_period_end |-> e,
   cf_client_name |-> c]
Acme == Str(<<"acme">>)
SelectorCandidates ==
  {Child(DateStr(-2), DateStr(-1), Acme), Child(DateStr(-2), DateStr(4), Acme),
   Child(DateStr(-2), DateStr(4), Null), Child(DateStr(-2), DateStr(6), Acme),
   Child(DateStr(0), DateStr(3), Acme), Child(DateStr(2), DateStr(4), Acme),
   Child(DateStr(2), DateStr(6), Acme), Child(DateStr(4), DateStr(6), Acme),
   Child(DateStr(2), DateStr(-1), Acme),
   Child(Undef, DateStr(6), Acme), Child(DateStr(2), Str(<<"t", "b", "d">>), Null),
   Child(Null, DateStr(4), Acme)}

SelectorInit ==
  /\ version = "v1"
  /\ main = "docker"
  /\ pc = "fetchMeta"
  /\ rel = [type |-> None, status |-> None, parent |-> ParentId]
  /\ store = InitialStore(OldAttributes)
  /\ \E cs \in SeqsUpTo(SelectorCandidates, MaxChildren) :
       children = [i \in 1..Len(cs) |-> [id |-> i, attributes |-> cs[i]]]
  /\ now \in Nows
  /\ InitRun

SelectorNext ==
  \/ FetchMeta
  \/ SearchRentalRecords
  \/ UpdateParentRecord

SelectorSpec == SelectorInit /\ [][SelectorNext]_vars

(***************************************************************************)
(* processRecordUpdate under each of the three versions of main.           *)
(***************************************************************************)
MainInit ==
  /\ version \in {"v2", "v3"}
  /\ main \in Mains
  /\ pc = "getRecordData"
  /\ rel \in [type : {"t_asset", "t_rental"}, status : {"s_hold", "s_ship"},
               parent : {None}]
  /\ \E list \in DispatchLists, assets \in {Undef, Arr(<<"a1">>)} :
       store = InitialStore(RentalAttributes(
                 Str(<<"R", "E", "N", "T", "-", "0", "0", "1">>),
                 list, assets, FullBundle))
  /\ children = <<>>
  /\ now = 0
  /\ InitRun

MainNext ==
  \/ GetRecordData
  \/ GetRecordTypeName
  \/ GetWorkflowStep
  \/ HandleOnHold
  \/ HandleShipmentPreparation
  \/ UpdateAsset
  \/ HandleAssetComponentUpdate

MainSpec == MainInit /\ [][MainNext]_vars

(***************************************************************************)
(* The cost calculator on its own: a rental in "Equipment On Hold" or      *)
(* "Shipment Preparation" with every line-item list of CostLists.          *)
(***************************************************************************)
CostInit ==
  /\ version \in {"v2", "v3"}
  /\ main = "docker"
  /\ pc = "getRecordData"
  /\ rel \in [type : {"t_rental"}, status : {"s_hold", "s_ship"}, parent : {None}]
  /\ \E list \in CostLists :
       store = InitialStore(RentalAttributes(
                 Str(<<"R", "E", "N", "T", "-", "0", "0", "1">>),
                 Json(Arr(list)), Arr(<<"a1">>), FullBundle))
  /\ children = <<>>
  /\ now = 0
  /\ InitRun

CostNext ==
  \/ GetRecordData
  \/ GetRecordTypeName
  \/ GetWorkflowStep
  \/ HandleOnHold
  \/ HandleShipmentPreparation
  \/ UpdateAsset

CostSpec == CostInit /\ [][CostNext]_vars

(***************************************************************************)
(* The On Hold run repeated: the record's update fires the webhook again   *)
(* and main starts a new run on the store as the last run left it.  The    *)
(* logs of reads and updates run on across the runs.                       *)
(***************************************************************************)
\* the runs started so far: each run begins with one _getRecordData
Runs == Cardinality({i \in DOMAIN reads : reads[i].call = "getRecordData"})

\* main started again after the record was updated
Trigger ==
  /\ pc = "done"
  /\ updates # <<>> /\ updates[Len(updates)].ok
  /\ Runs < MaxRuns
  /\ pc' = "getRecordData"
  /\ recordData' = Null
  /\ idx' = 0
  /\ exitCode' = -1
  /\ error' = NoError
  /\ stderr' = <<>>
  /\ UNCHANGED <<version, main, store, rel, children, now, pending, reads,
                 updates>>

RerunInit ==
  /\ version \in {"v2", "v3"}
  /\ main = "docker"
  /\ pc = "getRecordData"
  /\ rel = [type |-> "t_rental", status |-> "s_hold", parent |-> None]
  /\ \E list \in CostLists :
       store = InitialStore(RentalAttributes(
                 Str(<<"R", "E", "N", "T", "-", "0", "0", "1">>),
                 Json(Arr(list)), Arr(<<"a1">>), FullBundle))
  /\ children = <<>>
  /\ now = 0
  /\ InitRun

RerunNext ==
  \/ GetRecordData
  \/ GetRecordTypeName
  \/ GetWorkflowStep
  \/ HandleOnHold
  \/ Trigger

RerunSpec == RerunInit /\ [][RerunNext]_vars


(***************************************************************************)
(* Properties.                                                             *)
(***************************************************************************)
Dispatching == version \in {"v2", "v3"}
TypeName == RecordTypeNameOf(rel.type)
ReadOk(call) == \E i \in DOMAIN reads : reads[i] = [call |-> call, resp |-> "ok"]
ReadIssued(call) == \E i \in DOMAIN reads : reads[i].call = call
Pkey == store[RecordId]["pkey"]
\* the ten rental/address fields, as the claims list them
RentalAddressFields ==
  {"cf_rental_period_start", "cf_rental_period_end", "cf_client_name",
   "cf_equipment_rental_record", "cf_address_line1", "cf_address_line2",
   "cf_address_city", "cf_address_state", "cf_address_zip",
   "cf_address_country"}
\* the list of asset ids of the fetched rental
ListedAssets ==
  LET a == recordData.attributes["cf_available_equipment"]
  IN IF a.t = "array" THEN a.a ELSE <<>>
\* the fetched rental holds a parseable line-item list
HasItemList ==
  LET l == recordData.attributes["cf_list_equipment_to_be"]
  IN l.t = "json" /\ l.v.t = "array"

\* C1: an "Equipment Rental" whose primary key does not contain "RENT" never
\* reaches a handler and never has any update issued, whatever its workflow
\* step is.
C1_NoRentNoUpdate ==
  (Dispatching /\ TypeName = "Equipment Rental" /\ ~Includes(Pkey.s, RENT))
    => (updates = <<>> /\ pc \notin {"onHold", "shipment", "assets", "clear"})

C1_Witness ==
  /\ Dispatching /\ pc = "done" /\ TypeName = "Equipment Rental"
  /\ Pkey = Str(<<"R", "E", "N", "-", "T">>)
  /\ rel.status = "s_ship" /\ ReadOk("getWorkflowStep")
  /\ HasItemList /\ ListedAssets # <<>>
  /\ updates = <<>>

\* C2: an "Asset Record" or "Component Record" is routed to the clearing
\* operation whatever its status relationship and primary key are: exactly
\* one update is issued, to the triggering record, setting each of the ten
\* rental/address fields to null, and nothing else is issued.
C2_AssetComponentCleared ==
  (Dispatching /\ TypeName \in {"Asset Record", "Component Record"})
    => /\ pc \in {"getRecordData", "getRecordTypeName", "clear", "done"}
       /\ (pc # "done" => updates = <<>>)
       /\ (ReadOk("getRecordTypeName") => pc \in {"clear", "done"})
       /\ ~ReadIssued("getWorkflowStep")
       /\ (pc = "done" /\ ReadOk("getRecordTypeName")
             => /\ Len(updates) = 1
                /\ updates[1].id = RecordId
                /\ DOMAIN updates[1].attributes = RentalAddressFields
                /\ \A k \in RentalAddressFields : updates[1].attributes[k] = Null
                /\ (updates[1].ok
                      => \A k \in RentalAddressFields : store[RecordId][k] = Null))

C2_Witness ==
  /\ Dispatching /\ pc = "done" /\ TypeName = "Component Record"
  /\ rel.status = "s_hold"
  /\ Pkey = Str(<<"R", "E", "N", "T", "-", "0", "0", "1">>)
  /\ Len(updates) = 1 /\ updates[1].ok

\* the run entered the Shipment Preparation handler with a parseable list
ShipmentRan ==
  /\ Dispatching /\ TypeName = "Equipment Rental"
  /\ ReadOk("getWorkflowStep") /\ rel.status = "s_ship"
  /\ Includes(Pkey.s, RENT)
  /\ HasItemList

\* the update is the aggregate write to the rental
IsAggregateWrite(u) ==
  u.id = RecordId /\ DOMAIN u.attributes = {"cf_total_equipment_rental_cost"}

\* the update carries the rental's period, client and address fields and a
\* back-reference to the rental
CarriesBundle(u) ==
  LET r == recordData.attributes
  IN /\ \A k \in RentalAddressFields \ {"cf_client_name", "cf_equipment_rental_record"} :
          r[k] # Undef => (k \in DOMAIN u.attributes /\ u.attributes[k] = r[k])
     /\ r["cf_client_project_name"] # Undef
          => ("cf_client_name" \in DOMAIN u.attributes
              /\ u.attributes["cf_client_name"] = r["cf_client_project_name"])
     /\ "cf_equipment_rental_record" \in DOMAIN u.attributes
     /\ u.attributes["cf_equipment_rental_record"] \in {r["pkey"], Str(<<RecordId>>)}

\* updates 2.. are the listed assets, in the list's order, each carrying the bundle
AssetsUpdatedInOrder ==
  \A i \in 2..Len(updates) :
    /\ i - 1 <= Len(ListedAssets)
    /\ updates[i].id = ListedAssets[i - 1]
    /\ CarriesBundle(updates[i])

\* C3: in a Shipment Preparation run without failures the aggregate total is
\* written to the rental first; then the listed assets are updated one at a
\* time in the list's order, each update completed before the next is
\* issued, each carrying the bundle, and none is skipped.
C3_ShipmentOrder ==
  ShipmentRan
    => /\ pc \in {"shipment", "assets", "done"}
       /\ (pc = "shipment" => updates = <<>>)
       /\ (pc = "assets"
             => /\ Len(updates) = idx /\ idx <= Len(ListedAssets)
                /\ \A i \in 1..Len(updates) : updates[i].ok
                /\ IsAggregateWrite(updates[1])
                /\ AssetsUpdatedInOrder)
       /\ (pc = "done" /\ exitCode = 0
             => /\ Len(updates) = 1 + Len(ListedAssets)
                /\ \A i \in 1..Len(updates) : updates[i].ok
                /\ IsAggregateWrite(updates[1])
                /\ AssetsUpdatedInOrder)

C3_Witness ==
  /\ ShipmentRan /\ pc = "done" /\ exitCode = 0
  /\ ListedAssets = <<"a2", "a1">>
  /\ Len(updates) = 3
  /\ recordData.attributes["cf_address_line2"] = Undef

\* C4: when the update of the k-th listed asset is the first write to fail,
\* the aggregate write and the updates of the first k-1 assets stay applied
\* in the store, nothing is issued for the later assets, nothing is issued
\* twice, and the run ends with exit status 1.
C4_PartialFailure ==
  (ShipmentRan /\ Len(updates) >= 2 /\ ~updates[Len(updates)].ok)
    => /\ pc = "done" /\ exitCode = 1 /\ error.kind = "Update failed"
       /\ Len(updates) <= 1 + Len(ListedAssets)
       /\ \A i \in 1..(Len(updates) - 1) : updates[i].ok
       /\ IsAggregateWrite(updates[1])
       /\ store[RecordId]["cf_total_equipment_rental_cost"]
            = updates[1].attributes["cf_total_equipment_rental_cost"]
       /\ AssetsUpdatedInOrder
       /\ \A i \in 2..(Len(updates) - 1) :
            \A k \in DOMAIN updates[i].attributes :
              store[updates[i].id][k] = updates[i].attributes[k]
       /\ \A a \in AssetIds :
            (\A i \in 2..(Len(updates) - 1) : updates[i].id # a)
              => store[a] = OldAttributes

C4_Witness ==
  /\ ShipmentRan /\ pc = "done" /\ exitCode = 1
  /\ ListedAssets = <<"a1", "a2">>
  /\ Len(updates) = 3 /\ ~updates[3].ok
  /\ store["a1"]["cf_address_city"] = Str(<<"cf_address_city">>)
  /\ store["a2"] = OldAttributes

\* the text the switch sees: undefined when the step could not be fetched
StepTextSeen ==
  IF ReadOk("getWorkflowStep") THEN WorkflowStepTextOf(rel.status) ELSE "undefined"

\* one of the dispatcher's abort conditions ended the run (every response
\* that arrived was well formed for the version that read it)
AbortCondition ==
  /\ Dispatching /\ pc = "done"
  /\ \/ reads[1].resp = "notok"
     \/ reads[1].resp = "badjson" /\ version = "v3"
     \/ reads[1].resp = "ok" /\ rel.type = None
     \/ /\ ReadOk("getRecordTypeName")
        /\ TypeName \notin {"Asset Record", "Component Record", "Equipment Rental"}
     \/ /\ ReadOk("getRecordTypeName") /\ TypeName = "Equipment Rental"
        /\ \/ Pkey = Str(<<>>)
           \/ rel.status = None
           \/ /\ ReadIssued("getWorkflowStep")
              /\ StepTextSeen \notin {"Equipment On Hold", "Shipment Preparation"}

\* C5: every abort condition of the dispatcher is a silent no-op: no update
\* is issued and the run ends with exit status 0 and no error.
C5_AbortIsNoOp ==
  AbortCondition => (updates = <<>> /\ exitCode = 0 /\ error = NoError)

C5_Witness ==
  /\ AbortCondition /\ TypeName = "Equipment Rental"
  /\ Includes(Pkey.s, RENT) /\ rel.status = "s_other"
  /\ ReadOk("getWorkflowStep") /\ HasItemList


\* some read got a non-success HTTP status
ReadFailed == \E i \in DOMAIN reads : reads[i].resp = "notok"
LastUpdateFailed == updates # <<>> /\ ~updates[Len(updates)].ok

\* C6 as stated: in every version a non-success status on a read ends the
\* run with no update and no error, and only a failed write makes a run fail.
C6_ReadFailureIsSilentEverywhere ==
  /\ (pc = "done" /\ ReadFailed)
       => (updates = <<>> /\ exitCode = 0 /\ error = NoError)
  /\ (pc = "done" /\ exitCode = 1) => LastUpdateFailed

\* C6, amended: a non-success status on a read never leads to an update; in
\* processRecordUpdate (v2, v3) the run then ends with status 0 and no error,
\* while in processRentalAndUpdateParent (v1) the failed metadata fetch or
\* child search is thrown and the run ends with status 1.  A run fails only
\* through a failed write, a failed read in v1, or a response or line-item
\* attribute that cannot be processed.
C6_ReadFailure ==
  /\ (pc = "done" /\ ReadFailed)
       => /\ updates = <<>>
          /\ Dispatching => (exitCode = 0 /\ error = NoError)
          /\ version = "v1"
               => (exitCode = 1
                   /\ error.kind \in {"Metadata fetch failed", "Search failed"})
  /\ (pc = "done" /\ exitCode = 1)
       => \/ LastUpdateFailed /\ error.kind = "Update failed"
          \/ version = "v1" /\ ReadFailed
          \/ Dispatching /\ error.kind \in {"TypeError", "SyntaxError"}

C6_Witness ==
  /\ version = "v3" /\ pc = "done" /\ TypeName = "Equipment Rental"
  /\ Len(reads) = 3 /\ reads[3] = [call |-> "getWorkflowStep", resp |-> "notok"]
  /\ Includes(Pkey.s, RENT) /\ rel.status = "s_hold" /\ HasItemList
  /\ updates = <<>> /\ exitCode = 0

(***************************************************************************)
(* Cost properties, checked under CostSpec.  The expected costs are        *)
(* computed here from the item's fields, in hundredths.                    *)
(***************************************************************************)
\* the line items of the fetched rental, and the list as written back
FetchedItems == recordData.attributes["cf_list_equipment_to_be"].v.a
WrittenItems == updates[1].attributes["cf_list_equipment_to_be"].v.a

\* the On Hold handler has issued its write
OnHoldWrote ==
  /\ Dispatching /\ rel.status = "s_hold" /\ ReadOk("getWorkflowStep")
  /\ updates # <<>>

\* a date field that gives a valid Date (null is the epoch), and its instant
IsValidDate(v) == v.t \in {"datestring", "null"}
InstantOf(v) == IF v.t = "datestring" THEN v.at ELSE 0
\* round((end - start) / 1 day) + 1, instants in half days
InclusiveDays(item) ==
  LET diff == InstantOf(item.cf_rental_period_end)
                - InstantOf(item.cf_rental_period_start)
  IN ((diff + 1) \div 2) + 1
IsSkipped(item) ==
  \/ ~IsValidDate(item.cf_rental_period_start)
  \/ ~IsValidDate(item.cf_rental_period_end)
  \/ InclusiveDays(item) <= 0

\* the fields that are neither a number nor text starting with one
IsNotNumeric(v) ==
  v \in {Undef, Str(<<"x">>), Str(<<"n", "/", "a">>)}
\* text that starts with a number and goes on with something else
IsNumericPrefix(v) == v = Str(<<"5", "x">>)
\* the value of a numeric field, in hundredths
NumericValue(v) ==
  CASE v = Num(1) -> 100
    [] v = Num(5) -> 500
    [] v = Num(0) -> 0
    [] v = Num(15) -> 1500
    [] v = Num(50) -> 5000
    [] v = Num(300) -> 30000
    [] v = Num(900) -> 90000
    [] v = Str(<<"0">>) -> 0
    [] v = Str(<<"2">>) -> 200
\* the value the calculator is to use for a quantity or rate field
CoercedValue(v) ==
  IF IsNotNumeric(v) THEN 0
  ELSE IF IsNumericPrefix(v) THEN 500
  ELSE NumericValue(v)
\* ... when text that merely starts with a number counts as non-numeric
StrictValue(v) ==
  IF IsNotNumeric(v) \/ IsNumericPrefix(v) THEN 0 ELSE NumericValue(v)

\* the nearest integer to num/den (no ties occur for den 100, 700, 3000
\* with whole rates and quantities)
Nearest(num, den) ==
  LET f == num \div den IN IF 2 * (num - f * den) >= den THEN f + 1 ELSE f

\* the tiered cost of a computed item in hundredths, for field values
\* q (quantity), d, w, m (daily, weekly, monthly rate) in hundredths
TieredCost(days, q, d, w, m) ==
  IF m > 0 /\ days >= 28 THEN Nearest(days * m * q, 3000)
  ELSE IF w > 0 /\ days >= 7 THEN Nearest(days * w * q, 700)
  ELSE IF d > 0 THEN Nearest(days * d * q, 100)
  ELSE 0

ExpectedCost(item) ==
  TieredCost(InclusiveDays(item),
             CoercedValue(item.cf_quantity_rental),
             CoercedValue(item.cf_daily_rental_price),
             CoercedValue(item.cf_weekly_rental_price),
             CoercedValue(item.cf_monthly_rental_price))
ExpectedCostStrict(item) ==
  TieredCost(InclusiveDays(item),
             StrictValue(item.cf_quantity_rental),
             StrictValue(item.cf_daily_rental_price),
             StrictValue(item.cf_weekly_rental_price),
             StrictValue(item.cf_monthly_rental_price))

\* the hundredths denoted by text of the form digits "." digit digit, and -1
\* for any other text or value
TwoDecimalValue(v) ==
  IF v.t # "string" THEN -1
  ELSE LET s == v.s
           n == Len(s)
       IN IF /\ n >= 4
             /\ s[n - 2] = "."
             /\ DigitRun(s, 1) = n - 3
             /\ DigitRun(s, n - 1) = 2
            THEN DigitsVal(s, 1, n - 3) * 100 + DigitsVal(s, n - 1, 2)
            ELSE -1

\* C7: a computed item's cost follows the strict monthly, weekly, daily
\* priority on durationDays, a qualifying higher tier winning over a lower
\* one; a 7-day item at daily 50, weekly 300, quantity 1 costs "300.00".
C7_TierPriority ==
  OnHoldWrote
    => /\ \A i \in 1..Len(FetchedItems) :
            ~IsSkipped(FetchedItems[i])
              => TwoDecimalValue(WrittenItems[i].cf_total_cost)
                   = ExpectedCost(FetchedItems[i])
       /\ \A i \in 1..Len(FetchedItems) :
            (/\ FetchedItems[i].cf_rental_period_start = DateStr(0)
             /\ FetchedItems[i].cf_rental_period_end = DateStr(12)
             /\ FetchedItems[i].cf_quantity_rental = Num(1)
             /\ FetchedItems[i].cf_daily_rental_price = Num(50)
             /\ FetchedItems[i].cf_weekly_rental_price = Num(300)
             /\ FetchedItems[i].cf_monthly_rental_price = Undef)
              => WrittenItems[i].cf_total_cost
                   = Str(<<"3", "0", "0", ".", "0", "0">>)

\* 28 days with all three rates: monthly 28/30 * 900 = 840, not weekly 1200
C7_Witness ==
  /\ OnHoldWrote /\ pc = "done" /\ Len(FetchedItems) = 1
  /\ FetchedItems[1].cf_rental_period_end = DateStr(54)
  /\ FetchedItems[1].cf_quantity_rental = Num(1)
  /\ FetchedItems[1].cf_daily_rental_price = Num(50)
  /\ FetchedItems[1].cf_weekly_rental_price = Num(300)
  /\ FetchedItems[1].cf_monthly_rental_price = Num(900)
  /\ WrittenItems[1].cf_total_cost = Str(<<"8", "4", "0", ".", "0", "0">>)

\* C8: durationDays is round((end - start) / 1 day) + 1; an item with an
\* invalid date or durationDays <= 0 is written back exactly as it was,
\* the other items of the list get their computed cost and nothing else
\* changed, and the whole list is written back in the same order.
C8_DurationAndSkip ==
  OnHoldWrote
    => /\ Len(updates) = 1
       /\ updates[1].id = RecordId
       /\ DOMAIN updates[1].attributes = {"cf_list_equipment_to_be"}
       /\ Len(WrittenItems) = Len(FetchedItems)
       /\ \A i \in 1..Len(FetchedItems) :
            IF IsSkipped(FetchedItems[i])
              THEN WrittenItems[i] = FetchedItems[i]
              ELSE /\ WrittenItems[i].cf_total_cost.t = "string"
                   /\ WrittenItems[i]
                        = [FetchedItems[i] EXCEPT
                             !.cf_total_cost = WrittenItems[i].cf_total_cost]
                   /\ TwoDecimalValue(WrittenItems[i].cf_total_cost)
                        = ExpectedCost(FetchedItems[i])
       /\ \A i \in 1..Len(FetchedItems) :
            (/\ FetchedItems[i].cf_rental_period_start = DateStr(4)
             /\ FetchedItems[i].cf_rental_period_end = DateStr(4)
             /\ FetchedItems[i].cf_quantity_rental = Num(1)
             /\ FetchedItems[i].cf_daily_rental_price = Num(50))
              => WrittenItems[i].cf_total_cost = Str(<<"5", "0", ".", "0", "0">>)

\* a skipped item keeps its stored cost next to an item that is computed
C8_Witness ==
  /\ OnHoldWrote /\ pc = "done" /\ Len(FetchedItems) = 2
  /\ FetchedItems[1].cf_rental_period_start = Undef
  /\ FetchedItems[1].cf_total_cost = Str(<<"1", "0", ".", "0", "0">>)
  /\ WrittenItems[1].cf_total_cost = Str(<<"1", "0", ".", "0", "0">>)
  /\ FetchedItems[2].cf_rental_period_start = DateStr(0)
  /\ FetchedItems[2].cf_total_cost = Undef
  /\ WrittenItems[2].cf_total_cost = Str(<<"3", "0", "0", ".", "0", "0">>)

HasCoercedField(item) ==
  \E v \in {item.cf_quantity_rental, item.cf_daily_rental_price,
            item.cf_weekly_rental_price, item.cf_monthly_rental_price} :
    IsNotNumeric(v) \/ IsNumericPrefix(v)

\* C9 as stated: every missing or non-numeric quantity or rate counts as 0
\* ("5x", which is not a number, included), no error, "0.00" when all rates
\* are 0, and two decimals always.
C9_NonNumericIsZero ==
  OnHoldWrote
    => \A i \in 1..Len(FetchedItems) :
         (~IsSkipped(FetchedItems[i]) /\ HasCoercedField(FetchedItems[i]))
           => TwoDecimalValue(WrittenItems[i].cf_total_cost)
                = ExpectedCostStrict(FetchedItems[i])

\* C9, amended: a quantity or rate that is missing or does not start with a
\* number counts as 0 and never raises an error, while text that starts
\* with a number counts as that number ("5x" is 5); an item whose three
\* rates all count as 0 costs "0.00"; every computed cost is text with
\* exactly two decimals.
C9_Coercion ==
  /\ (Dispatching /\ rel.status = "s_hold" /\ ReadOk("getWorkflowStep")
        /\ pc = "done" /\ exitCode = 1)
       => LastUpdateFailed
  /\ OnHoldWrote
       => \A i \in 1..Len(FetchedItems) :
            ~IsSkipped(FetchedItems[i])
              => /\ TwoDecimalValue(WrittenItems[i].cf_total_cost) >= 0
                 /\ HasCoercedField(FetchedItems[i])
                      => TwoDecimalValue(WrittenItems[i].cf_total_cost)
                           = ExpectedCost(FetchedItems[i])
                 /\ (\A v \in {FetchedItems[i].cf_daily_rental_price,
                               FetchedItems[i].cf_weekly_rental_price,
                               FetchedItems[i].cf_monthly_rental_price} :
                       CoercedValue(v) = 0)
                      => WrittenItems[i].cf_total_cost = Str(<<"0", ".", "0", "0">>)

\* no usable rate at all: the cost is "0.00"
C9_Witness ==
  /\ OnHoldWrote /\ pc = "done" /\ Len(FetchedItems) = 1
  /\ FetchedItems[1].cf_rental_period_end = DateStr(12)
  /\ FetchedItems[1].cf_quantity_rental = Undef
  /\ FetchedItems[1].cf_daily_rental_price = Str(<<"x">>)
  /\ FetchedItems[1].cf_weekly_rental_price = Str(<<"0">>)
  /\ FetchedItems[1].cf_monthly_rental_price = Undef
  /\ WrittenItems[1].cf_total_cost = Str(<<"0", ".", "0", "0">>)

\* the Shipment Preparation handler has issued its aggregate write
ShipmentWrote ==
  /\ Dispatching /\ rel.status = "s_ship" /\ ReadOk("getWorkflowStep")
  /\ updates # <<>>

\* the stored cost of an item as a number of hundredths, 0 when it is
\* missing or not a number
StoredCostValue(v) ==
  IF v \in {Undef, Str(<<"x">>)} THEN 0 ELSE TwoDecimalValue(v)

RECURSIVE SumStored(_)
SumStored(items) ==
  IF items = <<>> THEN 0
  ELSE StoredCostValue(Head(items).cf_total_cost) + SumStored(Tail(items))

\* C10: the aggregate written in Shipment Preparation is the sum of the
\* items' stored costs, missing or non-numeric ones counting 0, with two
\* decimals; stored "10.00" and "5.50" give "15.50"; nothing is recomputed
\* from dates and rates.
C10_AggregateOfStored ==
  ShipmentWrote
    => /\ IsAggregateWrite(updates[1])
       /\ TwoDecimalValue(updates[1].attributes["cf_total_equipment_rental_cost"])
            = SumStored(FetchedItems)
       /\ (/\ Len(FetchedItems) = 2
           /\ FetchedItems[1].cf_total_cost = Str(<<"1", "0", ".", "0", "0">>)
           /\ FetchedItems[2].cf_total_cost = Str(<<"5", ".", "5", "0">>))
            => updates[1].attributes["cf_total_equipment_rental_cost"]
                 = Str(<<"1", "5", ".", "5", "0">>)

\* two items whose dates and rates would give 300.00 each
C10_Witness ==
  /\ ShipmentWrote /\ pc = "done" /\ exitCode = 0 /\ Len(FetchedItems) = 2
  /\ ~IsSkipped(FetchedItems[1]) /\ ~IsSkipped(FetchedItems[2])
  /\ FetchedItems[1].cf_total_cost = Str(<<"1", "0", ".", "0", "0">>)
  /\ FetchedItems[2].cf_total_cost = Str(<<"5", ".", "5", "0">>)
  /\ store[RecordId]["cf_total_equipment_rental_cost"]
       = Str(<<"1", "5", ".", "5", "0">>)

(***************************************************************************)
(* Relevance selector properties, checked under SelectorSpec.  The         *)
(* selection is observed in the payload prepared for the parent.           *)
(***************************************************************************)
\* the child search has answered
SearchDone == version = "v1" /\ ReadOk("searchRentalRecords")
\* the selector returned a candidate: an update of the parent is prepared
Selected == pending # NoPending
\* a candidate whose two dates are present and parseable
IsValidCandidate(c) ==
  /\ c.attributes.cf_rental_period_start.t = "datestring"
  /\ c.attributes.cf_rental_period_end.t = "datestring"
CStart(c) == c.attributes.cf_rental_period_start.at
CEnd(c) == c.attributes.cf_rental_period_end.at
IsActive(c) == IsValidCandidate(c) /\ CStart(c) <= now /\ now <= CEnd(c)
IsFuture(c) == IsValidCandidate(c) /\ CStart(c) > now /\ CEnd(c) >= now
\* the candidate at position i is the one whose attributes were returned
ReturnedIs(i) == pending.id = ParentId /\ pending.attributes = children[i].attributes

\* C11: when at least one valid candidate is active, the selector returns an
\* active candidate, never a future one: an active candidate with the
\* latest start date and, among the actives with that start date, the
\* latest end date.
C11_ActiveWins ==
  (SearchDone /\ \E i \in DOMAIN children : IsActive(children[i]))
    => /\ Selected
       /\ \E i \in DOMAIN children :
            /\ ReturnedIs(i)
            /\ IsActive(children[i])
            /\ \A j \in DOMAIN children :
                 IsActive(children[j])
                   => \/ CStart(children[j]) < CStart(children[i])
                      \/ /\ CStart(children[j]) = CStart(children[i])
                         /\ CEnd(children[j]) <= CEnd(children[i])
       /\ ~\E i \in DOMAIN children :
             pending.attributes = children[i].attributes /\ ~IsActive(children[i])

\* a future range first, then two actives with the same start
C11_Witness ==
  /\ SearchDone /\ pc = "done" /\ exitCode = 0 /\ now = 3
  /\ Len(children) = 3
  /\ children[1].attributes = Child(DateStr(4), DateStr(6), Acme)
  /\ children[2].attributes = Child(DateStr(2), DateStr(4), Acme)
  /\ children[3].attributes = Child(DateStr(2), DateStr(6), Acme)
  /\ ReturnedIs(3)
  /\ store[ParentId]["cf_rental_period_end"] = DateStr(6)

ValidChildren == SelectSeq(children, IsValidCandidate)
\* the position in ValidChildren of the candidate the selection rule picks
\* when it is given the valid candidates alone, 0 when it picks none
ExpectedChoice ==
  LET V == ValidChildren
      A == {i \in DOMAIN V : IsActive(V[i])}
      F == {i \in DOMAIN V : IsFuture(V[i])}
  IN IF A # {}
       THEN CHOOSE i \in A : \A j \in A \ {i} :
              \/ CStart(V[i]) > CStart(V[j])
              \/ CStart(V[i]) = CStart(V[j]) /\ CEnd(V[i]) > CEnd(V[j])
              \/ CStart(V[i]) = CStart(V[j]) /\ CEnd(V[i]) = CEnd(V[j]) /\ i < j
     ELSE IF F # {}
       THEN CHOOSE i \in F : \A j \in F \ {i} :
              \/ CStart(V[i]) < CStart(V[j])
              \/ CStart(V[i]) = CStart(V[j]) /\ i < j
     ELSE 0

\* C13: a candidate with a missing or unparseable start or end date is never
\* returned and does not change which of the other candidates is returned
\* (the result is the one the valid candidates alone give), whatever its
\* other fields are; with no valid candidate the result is null: nothing is
\* updated and the run ends without error.
C13_InvalidExcluded ==
  SearchDone
    => /\ Selected
            => /\ pending.attributes.cf_rental_period_start.t = "datestring"
               /\ pending.attributes.cf_rental_period_end.t = "datestring"
               /\ \A i \in DOMAIN children :
                    ~IsValidCandidate(children[i])
                      => pending.attributes # Stringify(children[i].attributes)
       /\ IF ExpectedChoice = 0
            THEN /\ ~Selected /\ pc = "done" /\ updates = <<>>
                 /\ exitCode = 0 /\ error = NoError
            ELSE /\ Selected
                 /\ pending.attributes = ValidChildren[ExpectedChoice].attributes

\* an active candidate between one whose start is null and one whose end
\* does not parse
C13_Witness ==
  /\ SearchDone /\ pc = "done" /\ exitCode = 0 /\ now = 0
  /\ Len(children) = 3
  /\ children[1].attributes = Child(Null, DateStr(4), Acme)
  /\ children[2].attributes = Child(DateStr(-2), DateStr(4), Acme)
  /\ children[3].attributes = Child(DateStr(2), Str(<<"t", "b", "d">>), Null)
  /\ ReturnedIs(2)
  /\ store[ParentId]["cf_rental_period_start"] = DateStr(-2)

(***************************************************************************)
(* Handler properties, checked under Spec.                                 *)
(***************************************************************************)
\* the run reached the On Hold or the Shipment Preparation handler
HandlerReached ==
  /\ Dispatching /\ TypeName = "Equipment Rental"
  /\ ReadOk("getWorkflowStep") /\ rel.status \in {"s_hold", "s_ship"}
  /\ Includes(Pkey.s, RENT)
\* the rental's line-item attribute is text that is not JSON
ListUnparseable == recordData.attributes["cf_list_equipment_to_be"].t = "string"

\* C14: in the On Hold and in the Shipment Preparation handler a line-item
\* list that cannot be parsed ends the handler: no update of any entity is
\* issued, no error is raised and the run ends with exit status 0.
C14_UnparseableListAborts ==
  (HandlerReached /\ ListUnparseable)
    => /\ pc \in {"onHold", "shipment", "done"}
       /\ updates = <<>>
       /\ \A id \in DOMAIN store : id # RecordId => store[id] = OldAttributes
       /\ pc = "done" => (exitCode = 0 /\ error = NoError /\ stderr = <<>>)

C14_Witness ==
  /\ HandlerReached /\ ListUnparseable /\ pc = "done"
  /\ rel.status = "s_hold"
  /\ recordData.attributes["cf_list_equipment_to_be"] = Str(<<"[", "{">>)
  /\ updates = <<>> /\ exitCode = 0

\* the value requested for field k of an asset in Shipment Preparation
RequestedForAsset(k) ==
  LET r == recordData.attributes
  IN CASE k = "cf_client_name" -> r["cf_client_project_name"]
       [] k = "cf_equipment_rental_record" ->
            IF version = "v2" THEN r["pkey"] ELSE Str(<<RecordId>>)
       [] OTHER -> r[k]
\* the value requested for field k of the parent from the chosen child c
RequestedForParent(c, k) ==
  IF k \in DOMAIN c.attributes THEN c.attributes[k] ELSE Undef
\* update u treats the requested value req of field k by the rule: undefined
\* is not sent and the stored value stays, anything else (null included) is
\* sent and stored
FollowsRule(u, k, req, old) ==
  IF req = Undef
    THEN k \notin DOMAIN u.attributes /\ (u.ok => store[u.id][k] = old)
    ELSE /\ k \in DOMAIN u.attributes
         /\ u.attributes[k] = req
         /\ u.ok => store[u.id][k] = req

\* C15: the patch of every update holds exactly the requested entries whose
\* value is not undefined: an undefined entry is dropped and the target keeps
\* its stored value, a null entry is sent and the target's value becomes
\* null; so for the bundle an asset (or the parent) receives.
C15_UndefinedDroppedNullSent ==
  /\ \A i \in DOMAIN updates :
       \A k \in DOMAIN updates[i].attributes : updates[i].attributes[k] # Undef
  /\ ShipmentRan
       => \A i \in 2..Len(updates) :
            /\ DOMAIN updates[i].attributes \subseteq RentalAddressFields
            /\ \A k \in RentalAddressFields :
                 FollowsRule(updates[i], k, RequestedForAsset(k), Old)
  /\ (version = "v1" /\ updates # <<>>)
       => \E c \in DOMAIN children :
            /\ DOMAIN updates[1].attributes
                 \subseteq RentalAddressFields \ {"cf_equipment_rental_record"}
            /\ \A k \in RentalAddressFields \ {"cf_equipment_rental_record"} :
                 FollowsRule(updates[1], k, RequestedForParent(children[c], k), Old)

\* the rental has cf_address_line2 undefined and cf_address_zip null
C15_Witness ==
  /\ ShipmentRan /\ pc = "done" /\ exitCode = 0
  /\ ListedAssets = <<"a1">> /\ Len(updates) = 2
  /\ recordData.attributes["cf_address_line2"] = Undef
  /\ recordData.attributes["cf_address_zip"] = Null
  /\ "cf_address_line2" \notin DOMAIN updates[2].attributes
  /\ updates[2].attributes["cf_address_zip"] = Null
  /\ store["a1"]["cf_address_line2"] = Old
  /\ store["a1"]["cf_address_zip"] = Null

(***************************************************************************)
(* The process boundary, checked under MainSpec.                           *)
(***************************************************************************)
\* C16: whenever a run fails, main reports exit status 1 and one fixed
\* generic message: the message is the same for any two failing runs,
\* whatever their underlying errors are, and holds no text of the error.
C16_GenericFailureMessage ==
  (pc = "done" /\ exitCode = 1) => stderr = GenericMessage

(***************************************************************************)
(* Parent sync, checked under Spec.                                        *)
(***************************************************************************)
\* nothing was issued, nothing changed in the store, the run ended well
EndedAsNoOp ==
  /\ pc = "done" /\ updates = <<>>
  /\ exitCode = 0 /\ error = NoError
  /\ store[ParentId] = OldAttributes
\* some child is an active or a future range
SomeRelevantChild ==
  \E i \in DOMAIN children : IsActive(children[i]) \/ IsFuture(children[i])

\* C17: in processRentalAndUpdateParent the parent is updated only when the
\* selector returns a candidate: without a parent, with an empty search
\* result or with no active and no future candidate, no update is issued
\* to any entity, the run ends without error and the parent keeps its
\* rental fields as they were.
C17_NoCandidateNoUpdate ==
  version = "v1"
    => /\ (ReadOk("fetchMeta") /\ rel.parent = None)
            => (EndedAsNoOp /\ ~ReadIssued("searchRentalRecords"))
       /\ (SearchDone /\ children = <<>>) => EndedAsNoOp
       /\ (SearchDone /\ ~SomeRelevantChild) => EndedAsNoOp
       /\ updates # <<>>
            => /\ SomeRelevantChild
               /\ Len(updates) = 1
               /\ updates[1].id = ParentId
       /\ \A id \in DOMAIN store : id # ParentId => store[id] = OldAttributes

\* two children, one of the past and one without a start date
C17_Witness ==
  /\ version = "v1" /\ SearchDone /\ now = 3
  /\ Len(children) = 2
  /\ children[1].attributes.cf_rental_period_start = DateStr(-2)
  /\ children[1].attributes.cf_rental_period_end = DateStr(-1)
  /\ children[2].attributes.cf_rental_period_start = Undef
  /\ EndedAsNoOp

\* the run reached the Shipment Preparation handler
ShipmentReached ==
  /\ Dispatching /\ TypeName = "Equipment Rental"
  /\ ReadOk("getWorkflowStep") /\ rel.status = "s_ship"
  /\ Includes(Pkey.s, RENT)
\* the serialized list is absent (undefined or null), empty text, or text
\* that is not JSON
NoUsableList ==
  LET l == recordData.attributes["cf_list_equipment_to_be"]
  IN l = Undef \/ l = Null \/ l.t = "string"

\* C18: a Shipment Preparation run whose serialized line-item list is
\* absent, empty or unparseable returns before any write: no aggregate is
\* written and no asset is updated even when assets are listed; and whenever
\* an asset is updated, the aggregate write to the rental has succeeded
\* earlier in the same run.
C18_ShipmentEarlyReturn ==
  /\ (ShipmentReached /\ NoUsableList)
       => /\ updates = <<>>
          /\ pc \in {"shipment", "done"}
          /\ store[RecordId]["cf_total_equipment_rental_cost"] = Undef
          /\ \A a \in AssetIds : store[a] = OldAttributes
          /\ pc = "done" => (exitCode = 0 /\ error = NoError)
  /\ \A i \in DOMAIN updates :
       updates[i].id \in AssetIds
         => /\ i > 1
            /\ IsAggregateWrite(updates[1]) /\ updates[1].ok
            /\ store[RecordId]["cf_total_equipment_rental_cost"]
                 = updates[1].attributes["cf_total_equipment_rental_cost"]

\* empty text for the list, two assets listed
C18_Witness ==
  /\ ShipmentReached /\ pc = "done"
  /\ recordData.attributes["cf_list_equipment_to_be"] = Str(<<>>)
  /\ ListedAssets = <<"a1", "a2">>
  /\ updates = <<>> /\ exitCode = 0

(***************************************************************************)
(* The On Hold run repeated, checked under RerunSpec.                      *)
(***************************************************************************)
\* the list written by the n-th update
ListWritten(n) == updates[n].attributes["cf_list_equipment_to_be"]

\* C19: On Hold is idempotent over the line-item list: a run on the list an
\* earlier On Hold run wrote back writes exactly the same list, so the
\* cost of an item does not depend on the cost stored for it.
C19_OnHoldIdempotent ==
  \A n \in 2..Len(updates) :
    /\ updates[n].id = RecordId
    /\ DOMAIN updates[n].attributes = {"cf_list_equipment_to_be"}
    /\ ListWritten(n) = ListWritten(n - 1)
    /\ updates[n].ok => store[RecordId]["cf_list_equipment_to_be"] = ListWritten(n - 1)

\* a computed item that came with another stored cost, next to a skipped one
C19_Witness ==
  /\ pc = "done" /\ exitCode = 0 /\ Runs = 2
  /\ Len(updates) = 2 /\ updates[1].ok /\ updates[2].ok
  /\ Len(ListWritten(1).v.a) = 2
  /\ ListWritten(1).v.a[1].cf_rental_period_start = Undef
  /\ ListWritten(1).v.a[1].cf_total_cost = Str(<<"5", ".", "5", "0">>)
  /\ ListWritten(1).v.a[2].cf_total_cost = Str(<<"3", "0", "0", ".", "0", "0">>)
  /\ ListWritten(2) = ListWritten(1)

====
